---- MODULE Spec2Model ----
(***************************************************************************)
(* Model of paint_session_arrange and its helpers from                     *)
(* src/paint_struct_benchmark.cpp: the quadrant merge, the rotation        *)
(* specific bounding box test and the local reorder pass.                  *)
(*                                                                         *)
(* Primitives are numbered 1..n (their slot in PaintStructs), the sentinel *)
(* PaintHead is node 0 and nullptr is -1.  One action is one iteration of  *)
(* one loop of the code (or one straight-line block between loops).        *)
(***************************************************************************)
EXTENDS Integers, Sequences, FiniteSets, TLC

(***************************************************************************)
(* Bounds of the model.                                                    *)
(***************************************************************************)
\* most primitives in a session
MaxNodes == 3
\* quadrant buckets used by the sessions are 5..MaxBucket
MaxBucket == 9
\* gCurrentRotation is drawn from 0..MaxRotation (values above 3 are invalid)
MaxRotation == 4

(***************************************************************************)
(* Program constants.                                                      *)
(***************************************************************************)
\* uint32_t values are written as their 32 bit two's complement reading (TLC's
\* integers are 32 bit signed): 0xFFFFFFFF is -1
UINT32_MAX == -1
PAINT_QUADRANT_FLAG_IDENTICAL == 1
PAINT_QUADRANT_FLAG_BIGGER == 128
PAINT_QUADRANT_FLAG_NEXT == 2
\* &session->PaintHead, the sentinel of the chain
PaintHead == 0
\* nullptr
NULL == -1

Buckets == 5 .. MaxBucket

(***************************************************************************)
(* paint_struct_bound_box values the primitives may carry.                 *)
(***************************************************************************)
Box(x, y, z, x_end, y_end, z_end) ==
    [x |-> x, y |-> y, z |-> z, x_end |-> x_end, y_end |-> y_end, z_end |-> z_end]

BoxA == Box(0, 0, 0, 4, 4, 4)
BoxB == Box(1, 1, 1, 3, 3, 3)
\* two flat boxes, a wall (x = x_end) and a floor (z = z_end)
BoxX == Box(0, 4, 0, 0, 8, 4)
BoxY == Box(4, 4, 0, 8, 8, 0)
Boxes == {BoxA, BoxB, BoxX, BoxY}

\* quadrant_flags the primitives of a session may hold before the first
\* arrange touches them (all clear, or every bit left set)
InitFlags == {0, 255}

VARIABLES
    \* ---- paint_session and its primitives
    Quadrants,            \* session->Quadrants[b], for b in Buckets
    QuadrantBackIndex,    \* session->QuadrantBackIndex
    QuadrantFrontIndex,   \* session->QuadrantFrontIndex
    gCurrentRotation,     \* the global rotation (uint8_t)
    quadrant_index,       \* ps->quadrant_index, per primitive
    bounds,               \* ps->bounds, per primitive
    attached_ps,          \* ps->attached_ps, per primitive (opaque payload)
    children,             \* ps->children, per primitive (opaque payload)
    next_quadrant_ps,     \* ps->next_quadrant_ps, per primitive and PaintHead
    quadrant_flags,       \* ps->quadrant_flags, per primitive
    \* ---- paint_session_arrange
    pc,                   \* position in the code
    ps,                   \* arrange: ps
    ps_next,              \* arrange: ps_next (merge loop)
    quadrantIndex,        \* arrange: quadrantIndex (uint32_t)
    rotation,             \* arrange: rotation
    ps_cache,             \* arrange: ps_cache
    \* ---- paint_arrange_structs_helper(_rotation)
    h_ps_next,            \* helper: parameter/local ps_next
    h_quadrantIndex,      \* helper: parameter quadrantIndex (uint16_t)
    h_flag,               \* helper: parameter flag
    h_rotation,           \* helper: parameter rotation / _TRotation
    h_ps,                 \* helper: ps
    h_ps_temp,            \* helper: ps_temp
    h_ps_cache,           \* helper: ps_cache
    initialBBox,          \* helper: initialBBox (the pivot's bounds)
    currentBBox,          \* helper: currentBBox (the scanned node's bounds)
    compareResult,        \* helper: compareResult
    ret,                  \* value returned by the last helper call
    ret_to,               \* where the running helper call returns to
    \* ---- history
    input_lists,          \* the per-bucket lists the session started with
    box_results,          \* BoxSpec: check_bounding_box<r> of a pair, r = 0, 1, ..
    entry_next,           \* the links when the latest helper call was made
    entry_flags,          \* the flags when the latest helper call was made
    scan_next,            \* the links when the latest pivot's scan started
    relocated,            \* the nodes the latest pivot's scan has spliced, in order
    moved,                \* the nodes the latest helper call has spliced
    cursors               \* the nodes the helper calls have returned so far

session_vars == <<Quadrants, QuadrantBackIndex, QuadrantFrontIndex, gCurrentRotation,
                  quadrant_index, bounds, attached_ps, children, input_lists, box_results>>
machine_vars == <<next_quadrant_ps, quadrant_flags, pc, ps, ps_next, quadrantIndex,
                  rotation, ps_cache, h_ps_next, h_quadrantIndex, h_flag, h_rotation,
                  h_ps, h_ps_temp, h_ps_cache, initialBBox, currentBBox, compareResult,
                  ret, ret_to>>
history_vars == <<entry_next, entry_flags, scan_next, relocated, moved, cursors>>
vars == <<Quadrants, QuadrantBackIndex, QuadrantFrontIndex, gCurrentRotation,
          quadrant_index, bounds, attached_ps, children, input_lists, box_results,
          entry_next, entry_flags, scan_next, relocated, moved, cursors,
          next_quadrant_ps, quadrant_flags, pc, ps, ps_next, quadrantIndex,
          rotation, ps_cache, h_ps_next, h_quadrantIndex, h_flag, h_rotation,
          h_ps, h_ps_temp, h_ps_cache, initialBBox, currentBBox, compareResult,
                  ret, ret_to>>

\* the primitives of the session
Nodes == DOMAIN quadrant_index

(***************************************************************************)
(* uint8_t flag arithmetic; bit is a power of two.                         *)
(***************************************************************************)
HasFlag(f, bit) == (f \div bit) % 2 = 1
SetFlag(f, bit) == IF HasFlag(f, bit) THEN f ELSE f + bit
ClearFlag(f, bit) == IF HasFlag(f, bit) THEN f - bit ELSE f

\* ++v, v < w and v <= w on uint32_t
Inc32(v) == IF v = 2147483647 THEN -2147483647 - 1 ELSE v + 1
Less32(v, w) == IF (v < 0) = (w < 0) THEN v < w ELSE w < 0
LessEq32(v, w) == v = w \/ Less32(v, w)
\* v & 0xFFFF
Low16(v) == v % 65536

\* line 242: gCurrentRotation & 3
get_current_rotation(g) == g % 4

(***************************************************************************)
(* check_bounding_box<_TRotation>(initialBBox, currentBBox)                *)
(***************************************************************************)
\* mutant: the exclusion of a current box that reaches past initial's start
\* on all three axes is left out
check_bounding_box_0_NoExclusion(i, c) ==
    i.z_end >= c.z /\ i.y_end >= c.y /\ i.x_end >= c.x

check_bounding_box_0(i, c) ==
    /\ i.z_end >= c.z /\ i.y_end >= c.y /\ i.x_end >= c.x
    /\ ~(i.z < c.z_end /\ i.y < c.y_end /\ i.x < c.x_end)

\* mutant: the x comparisons of rotation 0 copied into rotation 1
check_bounding_box_1_Flipped(i, c) ==
    /\ i.z_end >= c.z /\ i.y_end >= c.y /\ i.x_end >= c.x
    /\ ~(i.z < c.z_end /\ i.y < c.y_end /\ i.x >= c.x_end)

check_bounding_box_1(i, c) ==
    /\ i.z_end >= c.z /\ i.y_end >= c.y /\ i.x_end < c.x
    /\ ~(i.z < c.z_end /\ i.y < c.y_end /\ i.x >= c.x_end)

check_bounding_box_2(i, c) ==
    /\ i.z_end >= c.z /\ i.y_end < c.y /\ i.x_end < c.x
    /\ ~(i.z < c.z_end /\ i.y >= c.y_end /\ i.x >= c.x_end)

check_bounding_box_3(i, c) ==
    /\ i.z_end >= c.z /\ i.y_end < c.y /\ i.x_end >= c.x
    /\ ~(i.z < c.z_end /\ i.y >= c.y_end /\ i.x < c.x_end)

check_bounding_box(r, i, c) ==
    CASE r = 0 -> check_bounding_box_0(i, c)
      [] r = 1 -> check_bounding_box_1(i, c)
      [] r = 2 -> check_bounding_box_2(i, c)
      [] r = 3 -> check_bounding_box_3(i, c)
      [] OTHER -> FALSE

(***************************************************************************)
(* The running program as one record, so that every step of the code is a  *)
(* function from machine state to machine state.                           *)
(***************************************************************************)
Machine ==
    [next |-> next_quadrant_ps, flags |-> quadrant_flags, pc |-> pc,
     ps |-> ps, ps_next |-> ps_next, quadrantIndex |-> quadrantIndex,
     rotation |-> rotation, ps_cache |-> ps_cache,
     h_ps_next |-> h_ps_next, h_quadrantIndex |-> h_quadrantIndex,
     h_flag |-> h_flag, h_rotation |-> h_rotation, h_ps |-> h_ps,
     h_ps_temp |-> h_ps_temp, h_ps_cache |-> h_ps_cache,
     initialBBox |-> initialBBox, currentBBox |-> currentBBox,
     compareResult |-> compareResult, ret |-> ret, ret_to |-> ret_to]

\* the writes of one step to the links, the flags and the locals
Writes(m) ==
    /\ next_quadrant_ps' = m.next
    /\ quadrant_flags' = m.flags
    /\ pc' = m.pc
    /\ ps' = m.ps
    /\ ps_next' = m.ps_next
    /\ quadrantIndex' = m.quadrantIndex
    /\ rotation' = m.rotation
    /\ ps_cache' = m.ps_cache
    /\ h_ps_next' = m.h_ps_next
    /\ h_quadrantIndex' = m.h_quadrantIndex
    /\ h_flag' = m.h_flag
    /\ h_rotation' = m.h_rotation
    /\ h_ps' = m.h_ps
    /\ h_ps_temp' = m.h_ps_temp
    /\ h_ps_cache' = m.h_ps_cache
    /\ initialBBox' = m.initialBBox
    /\ currentBBox' = m.currentBBox
    /\ compareResult' = m.compareResult
    /\ ret' = m.ret
    /\ ret_to' = m.ret_to

\* what a step adds to the history: links and flags at a helper call, the
\* links at the start of a pivot's scan, the nodes spliced by that scan and by
\* the call, and the cursor a call returns
History(m) ==
    /\ entry_next' = IF pc \in {"call_first", "call_next"} THEN next_quadrant_ps
                     ELSE entry_next
    /\ entry_flags' = IF pc \in {"call_first", "call_next"} THEN quadrant_flags
                      ELSE entry_flags
    /\ scan_next' = IF pc = "pick" /\ m.pc = "scan" THEN next_quadrant_ps
                    ELSE scan_next
    /\ relocated' = IF pc = "pick" /\ m.pc = "scan" THEN <<>>
                    ELSE IF pc = "scan" /\ m.next # next_quadrant_ps
                    THEN Append(relocated, next_quadrant_ps[h_ps_next])
                    ELSE relocated
    /\ moved' = IF pc \in {"call_first", "call_next"} THEN {}
                ELSE IF pc = "scan" /\ m.next # next_quadrant_ps
                THEN moved \cup {next_quadrant_ps[h_ps_next]}
                ELSE moved
    /\ cursors' = IF m.pc \in {"ret_first", "ret_next"} THEN cursors \cup {m.ret}
                  ELSE cursors

\* mutant: the merge loop empties each bucket it has taken
Becomes_ConsumesBuckets(m) ==
    /\ Writes(m)
    /\ History(m)
    /\ Quadrants' = IF pc = "merge"
                    THEN [Quadrants EXCEPT ![quadrantIndex] = NULL]
                    ELSE Quadrants
    /\ UNCHANGED <<QuadrantBackIndex, QuadrantFrontIndex, gCurrentRotation,
                   quadrant_index, bounds, attached_ps, children, input_lists,
                   box_results>>

\* a step of the code: it writes links, flags and locals, and nothing else of
\* the session or its primitives
Becomes(m) ==
    /\ Writes(m)
    /\ History(m)
    /\ UNCHANGED session_vars

(***************************************************************************)
(* paint_session_arrange: entry and Quadrant Merge.                        *)
(***************************************************************************)
\* mutant: the sentinel's link is not reset (line 398 left out)
ArrangeEntryStep_NoReset(m) ==
    [m EXCEPT !.ps = PaintHead,
              !.quadrantIndex = QuadrantBackIndex,
              !.rotation = get_current_rotation(gCurrentRotation),
              !.pc = IF QuadrantBackIndex # UINT32_MAX THEN "merge" ELSE "done"]

\* lines 395-402: reset the sentinel, read the back index and the rotation
ArrangeEntryStep(m) ==
    [m EXCEPT !.ps = PaintHead,
              !.next = [m.next EXCEPT ![PaintHead] = NULL],
              !.quadrantIndex = QuadrantBackIndex,
              !.rotation = get_current_rotation(gCurrentRotation),
              !.pc = IF QuadrantBackIndex # UINT32_MAX THEN "merge" ELSE "done"]

\* line 416: } while (++quadrantIndex <= session->QuadrantFrontIndex);
MergeTest(m) ==
    LET q == Inc32(m.quadrantIndex)
    IN  [m EXCEPT !.quadrantIndex = q,
                  !.pc = IF LessEq32(q, QuadrantFrontIndex) THEN "merge"
                         ELSE "call_first"]

\* mutant: each bucket's list is linked behind psHead instead of ps
MergeBucketStep_LinksHead(m) ==
    LET head == Quadrants[m.quadrantIndex]
    IN  IF head # NULL
        THEN [m EXCEPT !.ps_next = head,
                       !.next = [m.next EXCEPT ![PaintHead] = head],
                       !.pc = "walk"]
        ELSE MergeTest([m EXCEPT !.ps_next = head])

\* lines 406-409: fetch the bucket's list and link it behind ps
MergeBucketStep(m) ==
    LET head == Quadrants[m.quadrantIndex]
    IN  IF head # NULL
        THEN [m EXCEPT !.ps_next = head,
                       !.next = [m.next EXCEPT ![m.ps] = head],
                       !.pc = "walk"]
        ELSE MergeTest([m EXCEPT !.ps_next = head])

\* lines 410-414: one iteration of the walk to the bucket's last primitive
MergeWalkStep(m) ==
    LET n == m.next[m.ps_next]
        w == [m EXCEPT !.ps = m.ps_next, !.ps_next = n]
    IN  IF n # NULL THEN w ELSE MergeTest(w)

(***************************************************************************)
(* paint_arrange_structs_helper: the dispatch on the rotation.             *)
(***************************************************************************)
\* lines 377-391
paint_arrange_structs_helper(m, cursor, index, flag, to) ==
    IF m.rotation \in 0 .. 3
    THEN [m EXCEPT !.h_ps_next = cursor,
                   !.h_quadrantIndex = index,
                   !.h_flag = flag,
                   !.h_rotation = m.rotation,
                   !.ret_to = to,
                   !.pc = "advance"]
    ELSE [m EXCEPT !.ret = NULL, !.pc = to]

\* a return statement of paint_arrange_structs_helper_rotation
Return(m, value) == [m EXCEPT !.ret = value, !.pc = m.ret_to]

(***************************************************************************)
(* paint_arrange_structs_helper_rotation<_TRotation>                       *)
(***************************************************************************)
\* mutant: ps_cache is taken before the advance loop, so it is the cursor the
\* call was given and not the last node the loop visited
AdvanceStep_CachesCursor(m) ==
    LET p == m.h_ps_next
        n == m.next[p]
        w == [m EXCEPT !.h_ps = p, !.h_ps_next = n]
        given == IF m.ret_to = "ret_first" THEN PaintHead ELSE m.ps_cache
    IN  IF n = NULL THEN Return(w, p)
        ELSE IF m.h_quadrantIndex > quadrant_index[n] THEN w
        ELSE [w EXCEPT !.h_ps_cache = given, !.h_ps_temp = p, !.pc = "mark"]

\* lines 296-305: one iteration of the cursor advance; on leaving the loop
\* the anchor is cached (ps_cache) and the marking loop starts from it
AdvanceStep(m) ==
    LET p == m.h_ps_next
        n == m.next[p]
        w == [m EXCEPT !.h_ps = p, !.h_ps_next = n]
    IN  IF n = NULL THEN Return(w, p)
        ELSE IF m.h_quadrantIndex > quadrant_index[n] THEN w
        ELSE [w EXCEPT !.h_ps_cache = p, !.h_ps_temp = p, !.pc = "mark"]

\* mutant: the first test reads quadrantIndex + 2, so a primitive two buckets
\* on is marked as a candidate of the next bucket, not as BIGGER
MarkedFlags_Wide(m, p) ==
    IF quadrant_index[p] > m.h_quadrantIndex + 2
    THEN PAINT_QUADRANT_FLAG_BIGGER
    ELSE IF quadrant_index[p] >= m.h_quadrantIndex + 1
    THEN SetFlag(PAINT_QUADRANT_FLAG_NEXT, PAINT_QUADRANT_FLAG_IDENTICAL)
    ELSE IF quadrant_index[p] = m.h_quadrantIndex
    THEN SetFlag(m.h_flag, PAINT_QUADRANT_FLAG_IDENTICAL)
    ELSE m.flags[p]

\* mutant: the marking loop sets its bits with |= and keeps the bits the
\* primitive already had
MarkedFlags_Accumulates(m, p) ==
    IF quadrant_index[p] > m.h_quadrantIndex + 1
    THEN SetFlag(m.flags[p], PAINT_QUADRANT_FLAG_BIGGER)
    ELSE IF quadrant_index[p] = m.h_quadrantIndex + 1
    THEN SetFlag(SetFlag(m.flags[p], PAINT_QUADRANT_FLAG_NEXT),
                 PAINT_QUADRANT_FLAG_IDENTICAL)
    ELSE IF quadrant_index[p] = m.h_quadrantIndex
    THEN SetFlag(IF m.h_flag = 0 THEN m.flags[p]
                 ELSE SetFlag(m.flags[p], m.h_flag),
                 PAINT_QUADRANT_FLAG_IDENTICAL)
    ELSE m.flags[p]

\* lines 314-325: the flags the marking loop gives a primitive
MarkedFlags(m, p) ==
    IF quadrant_index[p] > m.h_quadrantIndex + 1
    THEN PAINT_QUADRANT_FLAG_BIGGER
    ELSE IF quadrant_index[p] = m.h_quadrantIndex + 1
    THEN SetFlag(PAINT_QUADRANT_FLAG_NEXT, PAINT_QUADRANT_FLAG_IDENTICAL)
    ELSE IF quadrant_index[p] = m.h_quadrantIndex
    THEN SetFlag(m.h_flag, PAINT_QUADRANT_FLAG_IDENTICAL)
    ELSE m.flags[p]

\* lines 308-327: one iteration of the marking loop
MarkStep(m) ==
    LET p == m.next[m.h_ps]
    IN  IF p = NULL
        THEN [m EXCEPT !.h_ps = m.h_ps_temp, !.pc = "pick"]
        ELSE LET w == [m EXCEPT !.flags = [m.flags EXCEPT ![p] = MarkedFlags(m, p)]]
             IN  IF quadrant_index[p] <= m.h_quadrantIndex + 1
                 THEN [w EXCEPT !.h_ps = p]
                 ELSE [w EXCEPT !.h_ps = m.h_ps_temp, !.pc = "pick"]

\* mutant: the pivot keeps its IDENTICAL flag (line 343 left out)
PickStep_KeepsIdentical(m) ==
    LET n == m.next[m.h_ps]
        w == [m EXCEPT !.h_ps_next = n]
    IN  IF n = NULL THEN Return(w, m.h_ps_cache)
        ELSE IF HasFlag(m.flags[n], PAINT_QUADRANT_FLAG_BIGGER)
        THEN Return(w, m.h_ps_cache)
        ELSE IF HasFlag(m.flags[n], PAINT_QUADRANT_FLAG_IDENTICAL)
        THEN [w EXCEPT !.h_ps_temp = m.h_ps,
                       !.initialBBox = bounds[n],
                       !.pc = "scan"]
        ELSE [w EXCEPT !.h_ps = n]

\* mutant: the pivot search returns ps_next, the node that stopped it, not
\* ps_cache
PickStep_ReturnsNext(m) ==
    LET n == m.next[m.h_ps]
        w == [m EXCEPT !.h_ps_next = n]
    IN  IF n = NULL THEN Return(w, n)
        ELSE IF HasFlag(m.flags[n], PAINT_QUADRANT_FLAG_BIGGER)
        THEN Return(w, n)
        ELSE IF HasFlag(m.flags[n], PAINT_QUADRANT_FLAG_IDENTICAL)
        THEN [w EXCEPT !.flags = [m.flags EXCEPT
                           ![n] = ClearFlag(m.flags[n], PAINT_QUADRANT_FLAG_IDENTICAL)],
                       !.h_ps_temp = m.h_ps,
                       !.initialBBox = bounds[n],
                       !.pc = "scan"]
        ELSE [w EXCEPT !.h_ps = n]

\* mutant: the pivot search returns ps, where it stands, as line 301 does,
\* not ps_cache
PickStep_ReturnsPs(m) ==
    LET n == m.next[m.h_ps]
        w == [m EXCEPT !.h_ps_next = n]
    IN  IF n = NULL THEN Return(w, m.h_ps)
        ELSE IF HasFlag(m.flags[n], PAINT_QUADRANT_FLAG_BIGGER)
        THEN Return(w, m.h_ps)
        ELSE IF HasFlag(m.flags[n], PAINT_QUADRANT_FLAG_IDENTICAL)
        THEN [w EXCEPT !.flags = [m.flags EXCEPT
                           ![n] = ClearFlag(m.flags[n], PAINT_QUADRANT_FLAG_IDENTICAL)],
                       !.h_ps_temp = m.h_ps,
                       !.initialBBox = bounds[n],
                       !.pc = "scan"]
        ELSE [w EXCEPT !.h_ps = n]

\* lines 331-346: one iteration of the pivot search; on finding a primitive
\* flagged IDENTICAL it becomes the pivot and the node before it the anchor
PickStep(m) ==
    LET n == m.next[m.h_ps]
        w == [m EXCEPT !.h_ps_next = n]
    IN  IF n = NULL THEN Return(w, m.h_ps_cache)
        ELSE IF HasFlag(m.flags[n], PAINT_QUADRANT_FLAG_BIGGER)
        THEN Return(w, m.h_ps_cache)
        ELSE IF HasFlag(m.flags[n], PAINT_QUADRANT_FLAG_IDENTICAL)
        THEN [w EXCEPT !.flags = [m.flags EXCEPT
                           ![n] = ClearFlag(m.flags[n], PAINT_QUADRANT_FLAG_IDENTICAL)],
                       !.h_ps_temp = m.h_ps,
                       !.initialBBox = bounds[n],
                       !.pc = "scan"]
        ELSE [w EXCEPT !.h_ps = n]

\* mutant: the node is put behind the anchor without being unlinked (line 365
\* left out)
Splice_NoUnlink(next, p, n, anchor) ==
    LET ps_temp2 == next[anchor]
        n2 == [next EXCEPT ![anchor] = n]
    IN  [n2 EXCEPT ![n] = ps_temp2]

\* lines 365-369: unlink ps_next (the node after p) and put it behind the anchor
Splice(next, p, n, anchor) ==
    LET n1 == [next EXCEPT ![p] = next[n]]
        ps_temp2 == n1[anchor]
        n2 == [n1 EXCEPT ![anchor] = n]
    IN  [n2 EXCEPT ![n] = ps_temp2]

\* mutant: the node is put behind ps_cache, the anchor of the whole call, and
\* not behind ps_temp, the node before the pivot
ScanStep_AnchorsAtCache(m) ==
    LET p == m.h_ps_next
        n == m.next[p]
        w == [m EXCEPT !.h_ps = p, !.h_ps_next = n]
        leave == [w EXCEPT !.h_ps = m.h_ps_temp, !.pc = "pick"]
    IN  IF n = NULL THEN leave
        ELSE IF HasFlag(m.flags[n], PAINT_QUADRANT_FLAG_BIGGER) THEN leave
        ELSE IF ~HasFlag(m.flags[n], PAINT_QUADRANT_FLAG_NEXT) THEN w
        ELSE LET result == check_bounding_box(m.h_rotation, m.initialBBox, bounds[n])
                 c == [w EXCEPT !.currentBBox = bounds[n], !.compareResult = result]
             IN  IF result
                 THEN [c EXCEPT !.next = Splice(m.next, p, n, m.h_ps_cache),
                                !.h_ps_next = p]
                 ELSE c

\* lines 348-373: one iteration of the pivot's scan
ScanStep(m) ==
    LET p == m.h_ps_next
        n == m.next[p]
        w == [m EXCEPT !.h_ps = p, !.h_ps_next = n]
        leave == [w EXCEPT !.h_ps = m.h_ps_temp, !.pc = "pick"]
    IN  IF n = NULL THEN leave
        ELSE IF HasFlag(m.flags[n], PAINT_QUADRANT_FLAG_BIGGER) THEN leave
        ELSE IF ~HasFlag(m.flags[n], PAINT_QUADRANT_FLAG_NEXT) THEN w
        ELSE LET result == check_bounding_box(m.h_rotation, m.initialBBox, bounds[n])
                 c == [w EXCEPT !.currentBBox = bounds[n], !.compareResult = result]
             IN  IF result
                 THEN [c EXCEPT !.next = Splice(m.next, p, n, m.h_ps_temp),
                                !.h_ps_next = p]
                 ELSE c

(***************************************************************************)
(* paint_session_arrange: the reorder calls.                               *)
(***************************************************************************)
\* lines 418-419: the first call, at the back index, flag NEXT
CallFirstStep(m) ==
    paint_arrange_structs_helper(m, PaintHead, Low16(QuadrantBackIndex),
                                 PAINT_QUADRANT_FLAG_NEXT, "ret_first")

\* lines 418 and 421: keep the returned cursor, restart at the back index
ReturnFirstStep(m) ==
    [m EXCEPT !.ps_cache = m.ret, !.quadrantIndex = QuadrantBackIndex, !.pc = "loop"]

\* line 422: while (++quadrantIndex < session->QuadrantFrontIndex)
LoopTestStep(m) ==
    LET q == Inc32(m.quadrantIndex)
    IN  [m EXCEPT !.quadrantIndex = q,
                  !.pc = IF Less32(q, QuadrantFrontIndex) THEN "call_next" ELSE "done"]

\* line 424: a later call, flag 0, from the cursor of the call before
CallNextStep(m) ==
    paint_arrange_structs_helper(m, m.ps_cache, Low16(m.quadrantIndex), 0, "ret_next")

\* line 424: keep the returned cursor
ReturnNextStep(m) ==
    [m EXCEPT !.ps_cache = m.ret, !.pc = "loop"]

(***************************************************************************)
(* Actions.                                                                *)
(***************************************************************************)
ArrangeEntry == pc = "arrange" /\ Becomes(ArrangeEntryStep(Machine))
MergeBucket == pc = "merge" /\ Becomes(MergeBucketStep(Machine))
MergeWalk == pc = "walk" /\ Becomes(MergeWalkStep(Machine))
CallFirst == pc = "call_first" /\ Becomes(CallFirstStep(Machine))
Advance == pc = "advance" /\ Becomes(AdvanceStep(Machine))
Mark == pc = "mark" /\ Becomes(MarkStep(Machine))
Pick == pc = "pick" /\ Becomes(PickStep(Machine))
Scan == pc = "scan" /\ Becomes(ScanStep(Machine))
ReturnFirst == pc = "ret_first" /\ Becomes(ReturnFirstStep(Machine))
LoopTest == pc = "loop" /\ Becomes(LoopTestStep(Machine))
CallNext == pc = "call_next" /\ Becomes(CallNextStep(Machine))
ReturnNext == pc = "ret_next" /\ Becomes(ReturnNextStep(Machine))

(***************************************************************************)
(* Sessions the program starts from: n primitives, numbered in the order   *)
(* of their buckets and of their bucket's list, each bucket's list linked  *)
(* by next_quadrant_ps and null terminated, quadrant_index the bucket the  *)
(* primitive is stored in, back and front index the lowest and highest     *)
(* occupied bucket (or the back index still UINT32_MAX).  The code reads   *)
(* bucket numbers only to compare them with each other, so the lowest      *)
(* occupied bucket is always the first of Buckets.                         *)
(***************************************************************************)
FirstBucket == CHOOSE b \in Buckets : \A c \in Buckets : b <= c

BucketAssignments(n) ==
    {qi \in [1 .. n -> Buckets] :
        /\ \A i \in 1 .. n - 1 : qi[i] <= qi[i + 1]
        /\ n > 0 => qi[1] = FirstBucket}

\* the list stored in bucket b, as the sequence of its primitives
ListOf(qi, b) ==
    LET members == {i \in DOMAIN qi : qi[i] = b}
        first == CHOOSE i \in members : \A j \in members : i <= j
    IN  IF members = {} THEN <<>>
        ELSE [k \in 1 .. Cardinality(members) |-> first + k - 1]

InitSession(n, qi, back) ==
    /\ quadrant_index = qi
    /\ input_lists = [b \in Buckets |-> ListOf(qi, b)]
    /\ Quadrants = [b \in Buckets |->
                      IF ListOf(qi, b) = <<>> THEN NULL ELSE ListOf(qi, b)[1]]
    /\ QuadrantBackIndex = back
    /\ QuadrantFrontIndex = IF n = 0 THEN 0 ELSE qi[n]
    /\ attached_ps = [i \in 1 .. n |-> NULL]
    /\ children = [i \in 1 .. n |-> NULL]
    /\ \E stale \in {NULL} \cup {i \in 1 .. n : i = 1} :
         next_quadrant_ps = [i \in 0 .. n |->
                               IF i = PaintHead THEN stale
                               ELSE IF i < n /\ qi[i + 1] = qi[i] THEN i + 1
                               ELSE NULL]

\* locals before the code sets them
InitLocals ==
    /\ ps = NULL /\ ps_next = NULL /\ quadrantIndex = 0 /\ rotation = 0
    /\ ps_cache = NULL
    /\ h_ps_next = NULL /\ h_quadrantIndex = 0 /\ h_flag = 0 /\ h_rotation = 0
    /\ h_ps = NULL /\ h_ps_temp = NULL /\ h_ps_cache = NULL
    /\ compareResult = FALSE
    /\ ret = NULL /\ ret_to = "none"

\* nothing called, scanned or spliced yet
InitHistory ==
    /\ entry_next = <<>>
    /\ entry_flags = <<>>
    /\ scan_next = <<>>
    /\ relocated = <<>>
    /\ moved = {}
    /\ cursors = {}

Init ==
    /\ \E n \in 0 .. MaxNodes :
         \E qi \in BucketAssignments(n) :
           \E back \in {UINT32_MAX} \cup {qi[i] : i \in {j \in 1 .. n : j = 1}} :
             InitSession(n, qi, back)
    /\ bounds \in [Nodes -> Boxes]
    /\ \E f \in InitFlags : quadrant_flags = [p \in Nodes |-> f]
    /\ gCurrentRotation \in 0 .. MaxRotation
    /\ pc = "arrange"
    /\ InitLocals
    /\ initialBBox = BoxA /\ currentBBox = BoxA
    /\ box_results = <<>>
    /\ InitHistory

Next ==
    \/ ArrangeEntry
    \/ MergeBucket
    \/ MergeWalk
    \/ CallFirst
    \/ Advance
    \/ Mark
    \/ Pick
    \/ Scan
    \/ ReturnFirst
    \/ LoopTest
    \/ CallNext
    \/ ReturnNext

Spec == Init /\ [][Next]_vars

\* the code runs to completion: a step that can be taken is taken
FairSpec == Spec /\ WF_vars(Next)

(***************************************************************************)
(* The bounding box test on its own: a pair of boxes is drawn and          *)
(* check_bounding_box<r> is applied to it for r = 0, 1, 2, 3 in turn.      *)
(***************************************************************************)
BoxI == Box(0, 0, 0, 10, 10, 10)
BoxC == Box(5, 5, 5, 15, 15, 15)
BoxD == Box(11, 5, 5, 15, 15, 15)
BoxPool == Boxes \cup {BoxI, BoxC, BoxD}

BoxInit ==
    /\ initialBBox \in BoxPool
    /\ currentBBox \in BoxPool
    /\ box_results = <<>>
    /\ pc = "check_bounding_box"
    /\ InitLocals
    /\ gCurrentRotation = 0
    /\ InitSession(0, <<>>, UINT32_MAX)
    /\ bounds = <<>>
    /\ quadrant_flags = <<>>
    /\ InitHistory

BoxCheck ==
    /\ pc = "check_bounding_box"
    /\ Len(box_results) < 4
    /\ compareResult' = check_bounding_box(Len(box_results), initialBBox, currentBBox)
    /\ box_results' = Append(box_results, compareResult')
    /\ UNCHANGED <<Quadrants, QuadrantBackIndex, QuadrantFrontIndex, gCurrentRotation,
                   quadrant_index, bounds, attached_ps, children, input_lists,
                   next_quadrant_ps, quadrant_flags, pc, ps, ps_next, quadrantIndex,
                   rotation, ps_cache, h_ps_next, h_quadrantIndex, h_flag, h_rotation,
                   h_ps, h_ps_temp, h_ps_cache, initialBBox, currentBBox, ret, ret_to,
                   entry_next, entry_flags, scan_next, relocated, moved, cursors>>

BoxNext == BoxCheck

BoxSpec == BoxInit /\ [][BoxNext]_vars

(***************************************************************************)
(* Reading the chain.                                                      *)
(***************************************************************************)
\* the nodes met from p along the links, at most k of them; a walk that has
\* not reached nullptr after k nodes ends with the mark NULL
RECURSIVE Walk(_, _, _)
Walk(next, p, k) ==
    IF p = NULL THEN <<>>
    ELSE IF k = 0 THEN <<NULL>>
    ELSE <<p>> \o Walk(next, next[p], k - 1)

\* the chain behind the sentinel
Chain == Walk(next_quadrant_ps, next_quadrant_ps[PaintHead], Cardinality(Nodes) + 1)

Range(seq) == {seq[i] : i \in DOMAIN seq}

\* the input lists of buckets lo..hi, one after the other
RECURSIVE Concat(_, _, _)
Concat(lists, lo, hi) ==
    IF lo > hi THEN <<>> ELSE lists[lo] \o Concat(lists, lo + 1, hi)

\* what Quadrant Merge is to produce from the session's input
MergedOrder == Concat(input_lists, QuadrantBackIndex, QuadrantFrontIndex)

\* the merge loop has run (and a session with no bucket never gets there)
Merged == pc \notin {"arrange", "merge", "walk"} /\ QuadrantBackIndex # UINT32_MAX

\* a paint_arrange_structs_helper call has just returned
Returned == pc \in {"ret_first", "ret_next"}

\* position of a node in the chain, the sentinel at 0
Pos(p) ==
    IF p = PaintHead THEN 0
    ELSE CHOOSE i \in DOMAIN Chain : Chain[i] = p

InChain(p) == p = PaintHead \/ p \in Range(Chain)

(***************************************************************************)
(* C1 Conservation: once the merge loop has run, and so after every        *)
(* reorder call, the chain behind PaintHead is a null terminated list      *)
(* holding every primitive of the input buckets exactly once and nothing   *)
(* else: no loss, no duplicate, no cycle, no sentinel.                     *)
(***************************************************************************)
Conservation ==
    Merged =>
        /\ Len(Chain) = Cardinality(Nodes)
        /\ Range(Chain) = Nodes
        /\ Range(Chain) = UNION {Range(input_lists[b]) : b \in Buckets}

\* a finished arrange of three primitives that moved one of them
ConservationWitness ==
    /\ pc = "done" /\ Merged
    /\ Len(Chain) = 3
    /\ Chain # MergedOrder

(***************************************************************************)
(* C3 Quadrant Merge order: when the merge loop has finished and no reorder*)
(* call has run, the chain is the input lists of the buckets from back to  *)
(* front index in ascending bucket order, each list in its own order, so   *)
(* quadrant_index is weakly increasing along the chain.                    *)
(***************************************************************************)
MergeOrder ==
    pc = "call_first" =>
        /\ Chain = MergedOrder
        /\ \A i, j \in DOMAIN Chain :
             i < j => quadrant_index[Chain[i]] <= quadrant_index[Chain[j]]

\* merged: two occupied buckets with an empty bucket between them
MergeOrderWitness ==
    /\ pc = "call_first"
    /\ Len(Chain) = 3
    /\ Quadrants[5] # NULL /\ Quadrants[6] = NULL /\ Quadrants[7] # NULL
    /\ next_quadrant_ps[PaintHead] = Quadrants[5]

(***************************************************************************)
(* C2 Locality of reordering.  As claimed: in the final chain no primitive *)
(* of bucket b comes later than a primitive of bucket b+2 or greater.      *)
(***************************************************************************)
LocalityAsClaimed ==
    pc = "done" =>
        \A i, j \in DOMAIN Chain :
            i < j => quadrant_index[Chain[i]] < quadrant_index[Chain[j]] + 2

\* the primitives of seq with quadrant_index at least b, in the order of seq
FromBucket(seq, b) ==
    LET Far(p) == quadrant_index[p] >= b IN SelectSeq(seq, Far)

(***************************************************************************)
(* C2 as amended: locality holds call by call.  When the reorder call at   *)
(* boundary q returns, no primitive of bucket q+2 or greater has been      *)
(* moved: each still comes after every primitive of bucket q+1 or less,    *)
(* and they are in merge order among themselves.                           *)
(***************************************************************************)
LocalityPerCall ==
    (Returned /\ ret # NULL) =>
        /\ \A i, j \in DOMAIN Chain :
             (quadrant_index[Chain[i]] >= h_quadrantIndex + 2
                /\ quadrant_index[Chain[j]] <= h_quadrantIndex + 1) => j < i
        /\ FromBucket(Chain, h_quadrantIndex + 2)
             = FromBucket(MergedOrder, h_quadrantIndex + 2)

\* a call that moved a primitive while a primitive two buckets on was waiting
LocalityWitness ==
    /\ Returned
    /\ Chain # MergedOrder
    /\ \E p \in Nodes : quadrant_index[p] >= h_quadrantIndex + 2

(***************************************************************************)
(* C4 Two overlapping adjacent buckets: bucket 5 holds A = primitive 1     *)
(* with bounds (0,0,0,4,4,4), bucket 6 holds B = primitive 2 with bounds   *)
(* (1,1,1,3,3,3), rotation 0.                                              *)
(***************************************************************************)
Scenario ==
    /\ gCurrentRotation = 0
    /\ QuadrantBackIndex = 5
    /\ input_lists[5] = <<1>> /\ bounds[1] = BoxA
    /\ input_lists[6] = <<2>> /\ bounds[2] = BoxB

\* as claimed: the test of A against B is true and the finished arrange has
\* put B right behind A's anchor, which is PaintHead
ScenarioAsClaimed ==
    (Scenario /\ pc = "done") =>
        /\ check_bounding_box(0, bounds[1], bounds[2])
        /\ next_quadrant_ps[PaintHead] = 2

\* C4 as amended: the test of A against B is false (B lies inside A, which
\* the second half of the test excludes), B is not moved while A is the
\* pivot, and in the finished chain A is still first with B behind it
ScenarioOutcome ==
    Scenario =>
        /\ ~check_bounding_box(0, bounds[1], bounds[2])
        /\ (pc = "scan" /\ h_quadrantIndex = 5 /\ h_ps_temp = PaintHead /\ h_ps = 1) =>
              (h_ps_next = 2 /\ currentBBox = bounds[2] /\ ~compareResult)
        /\ pc = "done" => (next_quadrant_ps[PaintHead] = 1 /\ Pos(1) < Pos(2))

\* the scenario, arranged, with one more primitive in bucket 7
ScenarioWitness ==
    /\ Scenario /\ pc = "done"
    /\ Len(Chain) = 3 /\ ret_to = "ret_next"

(***************************************************************************)
(* C5 Termination: paint_session_arrange returns.                          *)
(***************************************************************************)
Termination == <>(pc = "done")

\* an arrange that made both kinds of call, spliced, and returned
TerminationWitness ==
    /\ pc = "done" /\ ret_to = "ret_next"
    /\ compareResult
    /\ Len(Chain) = Cardinality(Nodes)

\* the primitive behind p in the input list that holds p
InputLink(p) ==
    LET l == input_lists[quadrant_index[p]]
        i == CHOOSE k \in DOMAIN l : l[k] = p
    IN  IF i < Len(l) THEN l[i + 1] ELSE NULL

(***************************************************************************)
(* C6 Empty input: with QuadrantBackIndex at UINT32_MAX arrange resets the *)
(* sentinel and returns: no merge, no reorder call, no primitive touched,  *)
(* whatever the buckets hold.                                              *)
(***************************************************************************)
EmptyInput ==
    (QuadrantBackIndex = UINT32_MAX /\ pc # "arrange") =>
        /\ pc = "done"
        /\ next_quadrant_ps[PaintHead] = NULL
        /\ Chain = <<>>
        /\ ret_to = "none"
        /\ \A p \in Nodes : /\ next_quadrant_ps[p] = InputLink(p)
                            /\ quadrant_flags[p] \in InitFlags

\* an arranged session with primitives in its buckets but no back index
EmptyInputWitness ==
    /\ QuadrantBackIndex = UINT32_MAX /\ pc = "done"
    /\ Quadrants[5] # NULL /\ Quadrants[6] # NULL
    /\ \E p \in Nodes : quadrant_flags[p] = 255

(***************************************************************************)
(* C7 Rotation validation, as claimed: with gCurrentRotation outside       *)
(* 0..3 arrange fails fast, so no code of the reorder pass runs for any    *)
(* rotation's predicate and the merged order is never changed.             *)
(***************************************************************************)
RotationRejected ==
    gCurrentRotation \notin 0 .. 3 =>
        /\ pc \notin {"advance", "mark", "pick", "scan"}
        /\ Merged => Chain = MergedOrder

(***************************************************************************)
(* C8 Rotation sensitivity, under BoxSpec.  As claimed: for initial        *)
(* (0,0,0,10,10,10) and current (5,5,5,15,15,15) two rotations disagree.   *)
(***************************************************************************)
RotationSensitivityAsClaimed ==
    (initialBBox = BoxI /\ currentBBox = BoxC /\ Len(box_results) = 4) =>
        \E r1, r2 \in 1 .. 4 : box_results[r1] # box_results[r2]

\* C8 as amended: for that pair the test is false under every rotation; the
\* rotations do disagree on initial (0,0,0,10,10,10), current
\* (11,5,5,15,15,15): true for rotation 1, false for rotations 0, 2 and 3
RotationSensitivity ==
    /\ (initialBBox = BoxI /\ currentBBox = BoxC) =>
          \A r \in DOMAIN box_results : ~box_results[r]
    /\ (initialBBox = BoxI /\ currentBBox = BoxD /\ Len(box_results) = 4) =>
          box_results = <<FALSE, TRUE, FALSE, FALSE>>

\* the claimed pair, tested under all four rotations
RotationSensitivityWitness ==
    initialBBox = BoxI /\ currentBBox = BoxC /\ Len(box_results) = 4

(***************************************************************************)
(* C9 Payload pass-through: no step of arrange changes a primitive's       *)
(* bounds, quadrant_index, attached_ps or children, nor the Quadrants      *)
(* array or the back and front index; it writes links and flags only.      *)
(***************************************************************************)
PayloadPassThrough ==
    [][UNCHANGED <<bounds, quadrant_index, attached_ps, children,
                   Quadrants, QuadrantBackIndex, QuadrantFrontIndex>>]_vars

\* a finished arrange that rewrote links and flags
PayloadWitness ==
    /\ pc = "done" /\ Merged
    /\ Chain # MergedOrder
    /\ \E p \in Nodes : quadrant_flags[p] = PAINT_QUADRANT_FLAG_NEXT

\* the cursor the returning call was given
CursorIn == IF pc = "ret_first" THEN PaintHead ELSE ps_cache

(***************************************************************************)
(* C10 Cursor monotonicity: a reorder call returns a node that is not      *)
(* null, is in the chain behind PaintHead when the call returns, and is    *)
(* the cursor passed in or behind it (the anchor cached by the advance, or *)
(* the last node of the chain): the cursor never moves backward.           *)
(***************************************************************************)
CursorMonotone ==
    Returned =>
        /\ ret # NULL
        /\ InChain(ret) /\ InChain(CursorIn)
        /\ Pos(CursorIn) <= Pos(ret)
        /\ ret = h_ps_cache \/ next_quadrant_ps[ret] = NULL

\* a later call that returns a cursor further on than the one it was given
CursorWitness ==
    /\ pc = "ret_next"
    /\ ret # NULL /\ ret # ps_cache
    /\ Pos(ps_cache) < Pos(ret)

(***************************************************************************)
(* The returning call seen from its entry.                                 *)
(***************************************************************************)
\* the chain behind the sentinel when the call was made
EntryChain == Walk(entry_next, entry_next[PaintHead], Cardinality(Nodes) + 1)

\* the nodes behind the cursor when the call was made
EntryAfterCursor == Walk(entry_next, entry_next[CursorIn], Cardinality(Nodes) + 1)

\* the call was made with no primitive of bucket q or q+1 behind the cursor
ZeroCandidates ==
    /\ Returned
    /\ \A p \in Range(EntryAfterCursor) :
          /\ quadrant_index[p] # h_quadrantIndex
          /\ quadrant_index[p] # h_quadrantIndex + 1

\* the primitives right behind the cursor, at the call, whose bucket is below q
SettledBehindCursor ==
    LET Low(i) == \A j \in 1 .. i : quadrant_index[EntryAfterCursor[j]] < h_quadrantIndex
    IN  SubSeq(EntryAfterCursor, 1, Cardinality({i \in DOMAIN EntryAfterCursor : Low(i)}))

(***************************************************************************)
(* C11 Zero-candidate no-op, as claimed: a call made when no primitive     *)
(* behind the cursor has quadrant_index q or q+1 leaves the chain as it    *)
(* was and returns the cursor it was given.                                *)
(***************************************************************************)
ZeroCandidateAsClaimed ==
    ZeroCandidates => (Chain = EntryChain /\ ret = CursorIn)

(***************************************************************************)
(* C11 as amended: such a call writes no link, so the chain is as it was,  *)
(* and it returns the anchor of its advance: the last of the primitives    *)
(* right behind the cursor whose bucket is below q, and the cursor it was  *)
(* given only when there is none.                                          *)
(***************************************************************************)
ZeroCandidateNoOp ==
    ZeroCandidates =>
        /\ next_quadrant_ps = entry_next
        /\ Chain = EntryChain
        /\ ret = IF SettledBehindCursor = <<>> THEN CursorIn
                 ELSE SettledBehindCursor[Len(SettledBehindCursor)]

\* a call without candidates and with nothing to step over: the call before
\* it, without candidates too, had stepped over the settled primitives and
\* returned the last of them, and this call returns that cursor again
ZeroCandidateWitness ==
    /\ ZeroCandidates
    /\ pc = "ret_next"
    /\ SettledBehindCursor = <<>>
    /\ EntryAfterCursor # <<>>
    /\ CursorIn # PaintHead
    /\ cursors = {PaintHead, CursorIn}

\* a call without candidates that stepped over a settled primitive
ZeroCandidateAnchorWitness ==
    /\ ZeroCandidates
    /\ pc = "ret_next"
    /\ SettledBehindCursor # <<>>
    /\ EntryAfterCursor # SettledBehindCursor

(***************************************************************************)
(* The code run as a function: Step is the step the code takes from a      *)
(* machine state, Run takes steps until the code is at one of the places   *)
(* in stop.                                                                *)
(***************************************************************************)
Step(m) ==
    CASE m.pc = "arrange" -> ArrangeEntryStep(m)
      [] m.pc = "merge" -> MergeBucketStep(m)
      [] m.pc = "walk" -> MergeWalkStep(m)
      [] m.pc = "call_first" -> CallFirstStep(m)
      [] m.pc = "advance" -> AdvanceStep(m)
      [] m.pc = "mark" -> MarkStep(m)
      [] m.pc = "pick" -> PickStep(m)
      [] m.pc = "scan" -> ScanStep(m)
      [] m.pc = "ret_first" -> ReturnFirstStep(m)
      [] m.pc = "loop" -> LoopTestStep(m)
      [] m.pc = "call_next" -> CallNextStep(m)
      [] m.pc = "ret_next" -> ReturnNextStep(m)
      [] OTHER -> m

RECURSIVE Run(_, _, _)
Run(m, stop, fuel) ==
    IF m.pc \in stop \/ fuel = 0 THEN m
    ELSE Run(Step(m), stop, fuel - 1)

\* more steps than any call or arrange of the session takes
Fuel == 20 * (Cardinality(Nodes) + 2) * (Cardinality(Nodes) + 2)

\* the returning call made again from its entry, the primitives carrying
\* the flags f
CallAgain(f) ==
    LET entry == [Machine EXCEPT !.next = entry_next,
                                 !.flags = f,
                                 !.pc = IF pc = "ret_first" THEN "call_first"
                                        ELSE "call_next"]
    IN  Run(Step(entry), {"ret_first", "ret_next"}, Fuel)

\* every primitive's scratch flags reset to zero
CleanFlags == [p \in Nodes |-> 0]

(***************************************************************************)
(* C12 Scratch flags do not leak between reorder calls, as claimed: a      *)
(* reorder call of paint_session_arrange, made again from the same chain   *)
(* with the same boundary, carry flag and rotation but with the            *)
(* quadrant_flags left by the earlier calls reset to zero, gives the same  *)
(* chain and returns the same cursor.                                      *)
(***************************************************************************)
FlagsDoNotLeak ==
    Returned =>
        /\ CallAgain(CleanFlags).pc = pc
        /\ CallAgain(CleanFlags).next = next_quadrant_ps
        /\ CallAgain(CleanFlags).ret = ret

\* in a scan, the node the next iteration looks at (ps_next->next_quadrant_ps)
Scanned == next_quadrant_ps[h_ps_next]

\* the next iteration of the scan passes lines 352-357 and compares Scanned
\* as current
ComparesScanned ==
    /\ pc = "scan"
    /\ Scanned # NULL
    /\ ~HasFlag(quadrant_flags[Scanned], PAINT_QUADRANT_FLAG_BIGGER)
    /\ HasFlag(quadrant_flags[Scanned], PAINT_QUADRANT_FLAG_NEXT)

(***************************************************************************)
(* C13 Later calls touch next-boundary candidates only, as claimed: in a   *)
(* reorder call made with the carry flag unset, for boundary q, every      *)
(* primitive compared as current and every primitive spliced has           *)
(* quadrant_index q+1; none with quadrant_index q or less is relocated.    *)
(***************************************************************************)
UnsetCallMovesNextOnly ==
    (pc = "scan" /\ h_flag = 0) =>
        /\ ComparesScanned => quadrant_index[Scanned] = h_quadrantIndex + 1
        /\ \A i \in DOMAIN relocated :
              quadrant_index[relocated[i]] = h_quadrantIndex + 1

(***************************************************************************)
(* A pivot's scan seen from its start.                                     *)
(***************************************************************************)
\* the chain behind the sentinel when the scan started
ScanStartChain == Walk(scan_next, scan_next[PaintHead], Cardinality(Nodes) + 1)

\* the anchor (the node before the pivot when the scan started) and the pivot
Anchor == h_ps_temp
Pivot == scan_next[h_ps_temp]

Reverse(seq) == [i \in 1 .. Len(seq) |-> seq[Len(seq) + 1 - i]]

\* seq without the nodes of the set gone
Without(seq, gone) ==
    LET Stays(p) == p \notin gone IN SelectSeq(seq, Stays)

\* the nodes behind the anchor now
AfterAnchor == Walk(next_quadrant_ps, next_quadrant_ps[Anchor], Cardinality(Nodes) + 1)

\* the nodes the scan has looked at and left in place: those behind the pivot
\* up to ps_next
PassedOver ==
    IF h_ps_next = Pivot THEN <<>>
    ELSE SubSeq(Chain, Pos(Pivot) + 1, Pos(h_ps_next))

(***************************************************************************)
(* C14 Splice placement: at every point of a pivot's scan, the nodes it    *)
(* has relocated are the scanned nodes flagged NEXT for which the test     *)
(* against the pivot's bounds is true, each relocated once; they lie       *)
(* between the anchor and the pivot, the latest immediately behind the     *)
(* anchor, in reverse order of relocation; the nodes that were not         *)
(* relocated keep their relative order; and no node the scan left in place *)
(* was flagged NEXT with a true test.                                      *)
(***************************************************************************)
SplicePlacement ==
    pc = "scan" =>
        /\ initialBBox = bounds[Pivot]
        /\ Cardinality(Range(relocated)) = Len(relocated)
        /\ \A i \in DOMAIN relocated :
              /\ HasFlag(quadrant_flags[relocated[i]], PAINT_QUADRANT_FLAG_NEXT)
              /\ check_bounding_box(h_rotation, initialBBox, bounds[relocated[i]])
        /\ relocated # <<>> => next_quadrant_ps[Anchor] = relocated[Len(relocated)]
        /\ SubSeq(AfterAnchor, 1, Len(relocated) + 1) = Reverse(relocated) \o <<Pivot>>
        /\ Without(Chain, Range(relocated)) = Without(ScanStartChain, Range(relocated))
        /\ \A i \in DOMAIN PassedOver :
              ~(/\ HasFlag(quadrant_flags[PassedOver[i]], PAINT_QUADRANT_FLAG_NEXT)
                /\ check_bounding_box(h_rotation, initialBBox, bounds[PassedOver[i]]))

\* a scan that has relocated two nodes
SplicePlacementWitness ==
    /\ pc = "scan"
    /\ Len(relocated) = 2

(***************************************************************************)
(* The finished arrange seen from the session it was given.                *)
(***************************************************************************)
\* the links of the session before arrange: each bucket's list, the
\* sentinel's link not yet set
InputLinks ==
    [p \in DOMAIN next_quadrant_ps |-> IF p = PaintHead THEN NULL ELSE InputLink(p)]

\* paint_session_arrange run on the same session, its primitives carrying
\* the flags f
ArrangeAgain(f) ==
    Run([Machine EXCEPT !.next = InputLinks, !.flags = f, !.pc = "arrange"],
        {"done"}, Fuel)

\* initial quadrant_flags of a second session: one value on the primitives
\* in odd slots, one on those in even slots
OtherInitialFlags ==
    {[p \in Nodes |-> IF p % 2 = 1 THEN a ELSE b] : a, b \in InitFlags}

(***************************************************************************)
(* C15 Determinism including scratch state: the primitive order a finished *)
(* paint_session_arrange has produced is the order it produces from the    *)
(* same bucket contents and rotation when the primitives start with other  *)
(* quadrant_flags, the same on all or differing from one to the next.      *)
(***************************************************************************)
DeterministicOrder ==
    (pc = "done" /\ QuadrantBackIndex # UINT32_MAX) =>
        \A f \in OtherInitialFlags :
            LET again == ArrangeAgain(f)
            IN  again.pc = "done" /\ again.next = next_quadrant_ps

\* an arrange of three primitives that all started with every flag bit set,
\* and that changed the merged order
DeterministicOrderWitness ==
    /\ pc = "done" /\ ret_to = "ret_first"
    /\ entry_flags = [p \in Nodes |-> 255]
    /\ Len(Chain) = 3
    /\ Chain # MergedOrder

\* the sentinel and the nodes behind it, up to and including p
UpTo(chain, p) ==
    IF p = PaintHead THEN <<>>
    ELSE SubSeq(chain, 1, CHOOSE i \in DOMAIN chain : chain[i] = p)

(***************************************************************************)
(* C16 Settled prefix is never touched: when a helper call returns, no     *)
(* node that precedes the returned cursor has had its link or its flags    *)
(* written by the call, the node sequence from PaintHead up to and         *)
(* including the returned cursor is as it was when the call was made, and  *)
(* no cursor a call has returned is spliced by that call or a later one.   *)
(***************************************************************************)
SettledPrefix ==
    /\ Returned =>
          /\ ret \in {PaintHead} \cup Range(EntryChain)
          /\ UpTo(Chain, ret) = UpTo(EntryChain, ret)
          /\ \A p \in {PaintHead} \cup Range(UpTo(Chain, ret)) :
                p # ret =>
                    /\ next_quadrant_ps[p] = entry_next[p]
                    /\ p # PaintHead => quadrant_flags[p] = entry_flags[p]
    /\ cursors \cap moved = {}

\* a later call that spliced behind a settled primitive and returned it,
\* after an earlier call had returned the sentinel
SettledPrefixWitness ==
    /\ pc = "ret_next"
    /\ ret # PaintHead
    /\ moved # {}
    /\ cursors = {PaintHead, ret}

====
